---- MODULE Spec2Model ----
(***************************************************************************)
(* Model of the RAG service: the process-wide rag_pipeline_state, the two  *)
(* request handlers of app/main.py (upload_and_process_document and        *)
(* ask_document), and the functions they call in app/services              *)
(* (pinecone_service.py, rag_service.py).                                  *)
(*                                                                         *)
(* Python values are held as follows.                                      *)
(*  - str: a TLA+ string; None is the string "None".                       *)
(*  - list: a sequence, 1-based (Python index i is position i+1).          *)
(*  - an embedding: a sequence of integers.                                *)
(*  - a float similarity s: the exact fraction num/den = sign(s)*s*s in    *)
(*    lowest terms (den > 0), so that equality and order of scores are     *)
(*    those of the fractions; NaN is num = 0, den = 0.  Floating-point     *)
(*    rounding is not modelled.                                            *)
(*  - the return of a function that may raise: [raised, value].            *)
(***************************************************************************)
EXTENDS Integers, Sequences, FiniteSets, Bags, TLC

VARIABLES
    chunks,               \* rag_pipeline_state['chunks']
    embeddings,           \* rag_pipeline_state['embeddings']
    metadata,             \* rag_pipeline_state['metadata']
    embeddings_model,     \* rag_pipeline_state['embeddings_model']
    pinecone_index_name,  \* rag_pipeline_state['pinecone_index_name']
    req,                  \* the request (or call) last handled, with its inputs
    resp,                 \* its response (or return value)
    matches,              \* retrieved_chunks_info of that request
    backend,              \* where matches came from
    llm_calls,            \* calls of call_ollama_llm made by that request
    prompt,               \* the prompt given to call_ollama_llm, if any
    pinecone_queries,     \* queries sent to Pinecone by that request
    upserted,             \* the batches upserted to Pinecone by that request
    calls,                \* the services that request called, in order
    inflight              \* the uploads received whose file is still being read

vars == <<chunks, embeddings, metadata, embeddings_model, pinecone_index_name,
          req, resp, matches, backend, llm_calls, prompt, pinecone_queries,
          upserted, calls, inflight>>

state == <<chunks, embeddings, metadata, embeddings_model, pinecone_index_name>>

(***************************************************************************)
(* Bounds of the model.                                                    *)
(***************************************************************************)
MaxChunks == 2
MaxTopK == 2
MaxEvents == 2

None == "None"

\* Python truthiness of an Optional[str]: None and "" are both false.
IsSet(name) == name \notin {None, ""}

Min(a, b) == IF a < b THEN a ELSE b
Max(a, b) == IF a > b THEN a ELSE b

RECURSIVE GCD(_, _)
GCD(a, b) == IF b = 0 THEN a ELSE GCD(b, a % b)

\* s[:k] of Python for an integer k (negative k counts from the end).
SlicePrefix(s, k) ==
    IF k >= 0 THEN SubSeq(s, 1, Min(k, Len(s)))
    ELSE SubSeq(s, 1, Max(Len(s) + k, 0))

(***************************************************************************)
(* pinecone_service._in_memory_search                                      *)
(***************************************************************************)
RECURSIVE DotFrom(_, _, _)
DotFrom(u, v, i) ==
    IF i > Len(u) THEN 0 ELSE u[i] * v[i] + DotFrom(u, v, i + 1)

\* np.dot(u, v)
Dot(u, v) == DotFrom(u, v, 1)

\* np.linalg.norm(u) squared; the norm is zero exactly when this is.
NormSq(u) == Dot(u, u)

Zero == [num |-> 0, den |-> 1]
One == [num |-> 1, den |-> 1]
NaN == [num |-> 0, den |-> 0]

\* dot / (norm_query * norm_chunk) for non-zero norms, as sign*square in
\* lowest terms.
Quotient(dot, nq, nc) ==
    LET n == dot * dot
        d == nq * nc
        g == GCD(n, d)
    IN  IF d = 0 THEN NaN
        ELSE [num |-> (IF dot < 0 THEN -1 ELSE 1) * (n \div g), den |-> d \div g]

\* The similarity without the zero-norm test (division by a zero norm).
SimilarityUnguarded(query_embedding, chunk_embedding) ==
    Quotient(Dot(query_embedding, chunk_embedding),
             NormSq(query_embedding), NormSq(chunk_embedding))

\* Lines 152-159: the similarity of the query and one stored vector.
Similarity(query_embedding, chunk_embedding) ==
    IF NormSq(query_embedding) = 0 \/ NormSq(chunk_embedding) = 0
    THEN Zero
    ELSE Quotient(Dot(query_embedding, chunk_embedding),
                  NormSq(query_embedding), NormSq(chunk_embedding))

\* a < b on scores.
ScoreLess(a, b) == a.num * b.den < b.num * a.den

\* Insert x behind every element whose score is not less than x's.
RECURSIVE InsertDesc(_, _)
InsertDesc(x, s) ==
    IF s = <<>> THEN <<x>>
    ELSE IF ScoreLess(Head(s).score, x.score) THEN <<x>> \o s
    ELSE <<Head(s)>> \o InsertDesc(x, Tail(s))

RECURSIVE SortFrom(_, _, _)
SortFrom(s, i, acc) ==
    IF i > Len(s) THEN acc ELSE SortFrom(s, i + 1, InsertDesc(s[i], acc))

Reverse(s) == [i \in 1..Len(s) |-> s[Len(s) + 1 - i]]

\* Insert x behind every element whose score is less than x's or equal to it.
RECURSIVE InsertAsc(_, _)
InsertAsc(x, s) ==
    IF s = <<>> THEN <<x>>
    ELSE IF ScoreLess(x.score, Head(s).score) THEN <<x>> \o s
    ELSE <<Head(s)>> \o InsertAsc(x, Tail(s))

RECURSIVE SortAscFrom(_, _, _)
SortAscFrom(s, i, acc) ==
    IF i > Len(s) THEN acc ELSE SortAscFrom(s, i + 1, InsertAsc(s[i], acc))

\* A sort by ascending score that is then reversed: equal scores come out in
\* the reverse of their original order.
SortThenReverse(s) == Reverse(SortAscFrom(s, 1, <<>>))

\* Line 162: similarities.sort(key=lambda x: x[1], reverse=True), a stable
\* sort by descending score.
SortByScoreDesc(s) == SortFrom(s, 1, <<>>)

\* Lines 150-160: one (i, similarity, chunks[i]) per stored vector.
Similarities(query_embedding, cs, es) ==
    [p \in 1..Len(es) |->
        [id |-> p - 1, score |-> Similarity(query_embedding, es[p]), text |-> cs[p]]]

\* The search without the final slice.
InMemorySearchUncut(query_embedding, cs, es, top_k) ==
    SortByScoreDesc(Similarities(query_embedding, cs, es))

\* Lines 148-165.
in_memory_search(query_embedding, cs, es, top_k) ==
    SlicePrefix(SortByScoreDesc(Similarities(query_embedding, cs, es)), top_k)

(***************************************************************************)
(* pinecone_service.search_similar_chunks                                  *)
(***************************************************************************)
Returned(v) == [raised |-> FALSE, value |-> v]
Raised(e) == [raised |-> TRUE, value |-> e]

\* The except branch of lines 139-144 when it hands the failure on.
FallbackPropagates(query_embedding, cs, es, top_k) == Raised("PineconeException")

\* The except branch of lines 139-144 when it searches without the slice.
FallbackUncut(query_embedding, cs, es, top_k) ==
    IF cs # <<>> /\ es # <<>>
    THEN Returned(InMemorySearchUncut(query_embedding, cs, es, top_k))
    ELSE Returned(<<>>)

\* Lines 139-144: the persistent query failed.
Fallback(query_embedding, cs, es, top_k) ==
    IF cs # <<>> /\ es # <<>>
    THEN Returned(in_memory_search(query_embedding, cs, es, top_k))
    ELSE Returned(<<>>)

\* Lines 121-146.  embed is the outcome of embeddings_model.embed_query
\* ([ok, vector]); pine is the outcome of the Pinecone query ([ok, matches]),
\* read only when an index is named.  backend tells the path taken and
\* pinecone_queries counts the queries sent to Pinecone.
search_similar_chunks(embed, cs, es, top_k, index_name, pine) ==
    IF ~embed.ok
    THEN [ret |-> Raised("EmbeddingException"), backend |-> "none",
          pinecone_queries |-> 0]
    ELSE IF IsSet(index_name)
    THEN IF pine.ok
         THEN [ret |-> Returned(pine.matches), backend |-> "pinecone",
               pinecone_queries |-> 1]
         ELSE [ret |-> Fallback(embed.vector, cs, es, top_k),
               backend |-> "pinecone_failed", pinecone_queries |-> 1]
    ELSE [ret |-> Returned(in_memory_search(embed.vector, cs, es, top_k)),
          backend |-> "memory", pinecone_queries |-> 0]

(***************************************************************************)
(* rag_service.call_ollama_llm                                             *)
(***************************************************************************)
NoContentMessage == "Ollama LLM response received, but no content was extracted."

\* Lines 54-63: the handlers, in order; the exception classes of requests
\* derive from RequestException, and every class from Exception.
HandlerMessage(exc) ==
    CASE exc = "HTTPError" -> "HTTP error calling Ollama LLM"
      [] exc = "ConnectionError" -> "Connection error calling Ollama LLM"
      [] exc = "Timeout" -> "Timeout error calling Ollama LLM"
      [] exc = "RequestException" -> "An unexpected request error occurred calling Ollama LLM"
      [] OTHER -> "An unexpected error occurred during Ollama LLM call"

\* The loop of lines 33-46 without the break of lines 42-43.
RECURSIVE ReadLinesNoBreak(_, _, _)
ReadLinesNoBreak(lines, i, content) ==
    IF i > Len(lines) THEN [exc |-> None, content |-> content]
    ELSE LET line == lines[i] IN
         CASE line.kind = "broken" -> [exc |-> "RequestException", content |-> content]
           [] line.kind = "bad" -> [exc |-> "Exception", content |-> content]
           [] OTHER -> ReadLinesNoBreak(lines, i + 1, content \o line.text)

\* Lines 33-46: the loop over response.iter_lines().  Returns the exception
\* that left the loop ("None" when it ended normally) and the content read.
RECURSIVE ReadLines(_, _, _)
ReadLines(lines, i, content) ==
    IF i > Len(lines) THEN [exc |-> None, content |-> content]
    ELSE LET line == lines[i] IN
         CASE line.kind = "blank" -> ReadLines(lines, i + 1, content)
           [] line.kind = "malformed" -> ReadLines(lines, i + 1, content)
           [] line.kind = "broken" -> [exc |-> "RequestException", content |-> content]
           [] line.kind = "bad" -> [exc |-> "Exception", content |-> content]
           [] line.kind \in {"response", "message"} ->
                IF line.done
                THEN [exc |-> None, content |-> content \o line.text]
                ELSE ReadLines(lines, i + 1, content \o line.text)
           [] OTHER ->
                IF line.done
                THEN [exc |-> None, content |-> content]
                ELSE ReadLines(lines, i + 1, content)

\* Lines 29-52: the body of the try.  outcome.exc is what requests.post or
\* raise_for_status raised ("None": the stream outcome.lines follows).
TryBody(outcome) ==
    IF outcome.exc # None THEN [exc |-> outcome.exc, content |-> ""]
    ELSE ReadLines(outcome.lines, 1, "")

\* call_ollama_llm with the last handler, except Exception, left out.
CallWithoutCatchAll(outcome) ==
    LET r == TryBody(outcome) IN
    IF r.exc = "Exception" THEN Raised(r.exc)
    ELSE IF r.exc # None THEN Returned(HandlerMessage(r.exc))
    ELSE IF r.content # "" THEN Returned(r.content)
    ELSE Returned(NoContentMessage)

\* Lines 17-63.
call_ollama_llm(outcome) ==
    LET r == TryBody(outcome) IN
    IF r.exc # None THEN Returned(HandlerMessage(r.exc))
    ELSE IF r.content # "" THEN Returned(r.content)
    ELSE Returned(NoContentMessage)

(***************************************************************************)
(* rag_service.ask_llm_with_context                                        *)
(***************************************************************************)
NoInfoMessage ==
    "No relevant information found in the document to answer your query. Please try a different question."

\* "\n\n".join(texts)
RECURSIVE JoinFrom(_, _)
JoinFrom(ms, i) ==
    IF i > Len(ms) THEN ""
    ELSE IF i = Len(ms) THEN ms[i].text
    ELSE ms[i].text \o "\n\n" \o JoinFrom(ms, i + 1)

\* The context with the worst match first.
ContextReversed(ms) == JoinFrom(Reverse(ms), 1)

\* Lines 84-85.
Context(ms) == JoinFrom(ms, 1)

\* Lines 87-98.
Prompt(context, query) ==
    "\n    You are an AI assistant tasked with answering questions based on the provided context.\n\nContext:\n---\n"
    \o context \o "\n---\n\nQuestion: " \o query \o "\n\nAnswer:\n"

\* ask_llm_with_context without the test of line 81.
AskWithoutEmptyTest(query, embed, cs, es, index_name, top_k, pine, llm) ==
    LET s == search_similar_chunks(embed, cs, es, top_k, index_name, pine) IN
    IF s.ret.raised
    THEN [ret |-> s.ret, matches |-> <<>>, backend |-> s.backend,
          pinecone_queries |-> s.pinecone_queries, llm_calls |-> 0, prompt |-> None]
    ELSE [ret |-> call_ollama_llm(llm), matches |-> s.ret.value, backend |-> s.backend,
          pinecone_queries |-> s.pinecone_queries, llm_calls |-> 1,
          prompt |-> Prompt(Context(s.ret.value), query)]

\* Lines 65-107.  llm is the outcome of the generation request, read only
\* when call_ollama_llm is called.
ask_llm_with_context(query, embed, cs, es, index_name, top_k, pine, llm) ==
    LET s == search_similar_chunks(embed, cs, es, top_k, index_name, pine) IN
    IF s.ret.raised
    THEN [ret |-> s.ret, matches |-> <<>>, backend |-> s.backend,
          pinecone_queries |-> s.pinecone_queries, llm_calls |-> 0, prompt |-> None]
    ELSE IF s.ret.value = <<>>
    THEN [ret |-> Returned(NoInfoMessage), matches |-> <<>>, backend |-> s.backend,
          pinecone_queries |-> s.pinecone_queries, llm_calls |-> 0, prompt |-> None]
    ELSE [ret |-> call_ollama_llm(llm), matches |-> s.ret.value, backend |-> s.backend,
          pinecone_queries |-> s.pinecone_queries, llm_calls |-> 1,
          prompt |-> Prompt(Context(s.ret.value), query)]

(***************************************************************************)
(* pinecone_service: embeddings, metadata, index operations                *)
(***************************************************************************)
ModelName == "multilingual-e5-large"

\* The chunk texts of the model, and the vector the embedding model gives
\* each (embed_documents and embed_query of the same model agree on a text).
Texts == {"a", "b"}
EmbedVec(t) == IF t = "a" THEN <<1, 0>> ELSE <<0, 1>>

\* What the chunker can return: any list of at most MaxChunks chunks.
Docs == UNION {[1..n -> Texts] : n \in 0..MaxChunks}

\* Line 30: embeddings_model.embed_documents(chunks), one vector per chunk.
embed_documents(cs) == [i \in 1..Len(cs) |-> EmbedVec(cs[i])]

\* Lines 26-37.  ok: whether embed_documents returned; the result is the
\* list, or None ([none |-> TRUE]) when it raised.
create_embeddings_from_chunks(cs, ok) ==
    IF ok THEN [none |-> FALSE, list |-> embed_documents(cs)]
    ELSE [none |-> TRUE, list |-> <<>>]

PreviewLen == 100

\* Line 47.
chunk_preview(chunk) ==
    IF Len(chunk) > PreviewLen
    THEN SubSeq(chunk, 1, PreviewLen) \o "..."
    ELSE chunk

\* The metadata with chunk_id counted from one.
MetadataFromOne(cs, source_file) ==
    [p \in 1..Len(cs) |->
        [chunk_id |-> p,
         chunk_size |-> Len(cs[p]),
         source_file |-> IF IsSet(source_file) THEN source_file ELSE "uploaded_document",
         chunk_preview |-> chunk_preview(cs[p]),
         text |-> cs[p]]]

\* Lines 39-51.
create_embedding_metadata(cs, source_file) ==
    [p \in 1..Len(cs) |->
        [chunk_id |-> p - 1,
         chunk_size |-> Len(cs[p]),
         source_file |-> IF IsSet(source_file) THEN source_file ELSE "uploaded_document",
         chunk_preview |-> chunk_preview(cs[p]),
         text |-> cs[p]]]

HashPrefixLen == 50
HashModulus == 10000
BatchSize == 100

\* hash(s) of a str, fixed within one process; this stand-in keeps it a
\* function of the text.
StrHash(t) == Len(t) * 31 + 7

\* Lines 96-106.
Vectors(es, cs, ms) ==
    [p \in 1..Min(Len(es), Min(Len(cs), Len(ms))) |->
        [id |-> [i |-> p - 1,
                 h |-> StrHash(SubSeq(cs[p], 1, Min(HashPrefixLen, Len(cs[p])))) % HashModulus],
         values |-> es[p],
         metadata |-> [ms[p] EXCEPT !.text = cs[p]]]]

\* Batch number b when the slice stops one vector early.
BatchShort(vs, b) ==
    SubSeq(vs, (b - 1) * BatchSize + 1, Min(b * BatchSize, Len(vs)) - 1)

\* Lines 107-109: batch number b (from 1) of the vectors.
Batch(vs, b) ==
    SubSeq(vs, (b - 1) * BatchSize + 1, Min(b * BatchSize, Len(vs)))

NumBatches(vs) == (Len(vs) + BatchSize - 1) \div BatchSize

\* What can fail in store_embeddings_in_pinecone: connecting to the index,
\* the upsert of batch number batch, the final describe_index_stats, nothing.
StoreOutcomes(n) ==
    {[at |-> "connect", batch |-> 0], [at |-> "stats", batch |-> 0],
     [at |-> "none", batch |-> 0]}
    \cup {[at |-> "upsert", batch |-> b] : b \in 1..n}

\* The store when a failure is logged and True is returned all the same.
StoreReportsSuccess(es, cs, ms, index_name, outcome) ==
    [success |-> TRUE,
     batches |-> [b \in 1..(IF outcome.at = "connect" THEN 0
                            ELSE IF outcome.at = "upsert" THEN outcome.batch - 1
                            ELSE NumBatches(Vectors(es, cs, ms))) |->
                    Batch(Vectors(es, cs, ms), b)]]

\* Lines 91-118.  Returns the success flag and the batches that reached the
\* index.
store_embeddings_in_pinecone(es, cs, ms, index_name, outcome) ==
    LET vs == Vectors(es, cs, ms)
        nb == NumBatches(vs)
        sent == IF outcome.at = "connect" THEN 0
                ELSE IF outcome.at = "upsert" THEN outcome.batch - 1
                ELSE nb
    IN  [success |-> outcome.at = "none",
         batches |-> [b \in 1..sent |-> Batch(vs, b)]]

(***************************************************************************)
(* main.py: the inputs of the two handlers                                 *)
(***************************************************************************)
FileNames == {"r.docx", "N.MD", "p.txt", "readme"}
IndexNames == {None, "idx"}
Queries == Texts
TopKs == -1..MaxTopK

\* The top_k values the handler is run with: none, one, many.
SomeTopKs == {0, 1, MaxTopK}

\* What text extraction can return: None, the empty text, a text.
ExtractOutcomes == {None, "", "text"}

\* str.lower() on the letters of FileNames.
LowerChar(c) ==
    CASE c = "N" -> "n" [] c = "M" -> "m" [] c = "D" -> "d" [] OTHER -> c

RECURSIVE LowerFrom(_, _)
LowerFrom(t, i) ==
    IF i > Len(t) THEN "" ELSE LowerChar(SubSeq(t, i, i)) \o LowerFrom(t, i + 1)

Lower(t) == LowerFrom(t, 1)

Dots(t) == {i \in 1..Len(t) : SubSeq(t, i, i) = "."}

\* Line 50: file_name.lower().split('.')[-1] if '.' in file_name else ''
file_extension(file_name) ==
    IF Dots(file_name) = {} THEN ""
    ELSE LET last == CHOOSE i \in Dots(file_name) : \A j \in Dots(file_name) : j <= i
         IN  SubSeq(Lower(file_name), last + 1, Len(file_name))

\* The outcomes of embeddings_model.embed_query(query).
EmbedOutcomes(query) ==
    {[ok |-> TRUE, vector |-> EmbedVec(query)], [ok |-> FALSE, vector |-> <<>>]}

\* The outcomes of the Pinecone query: a failure, no match, matches.
PineMatch(n, t) == [id |-> [i |-> n, h |-> StrHash(t) % HashModulus], score |-> One, text |-> t]
PineFails == [ok |-> FALSE, matches |-> <<>>]
PineOutcomes ==
    {PineFails, [ok |-> TRUE, matches |-> <<>>],
     [ok |-> TRUE, matches |-> <<PineMatch(0, "a")>>]}

\* The stream events of the generation response: an empty keep-alive line,
\* a line that is not JSON, an object with "response", an object with
\* message.content, an object with neither, a line that makes the loop raise
\* (not UTF-8, not an object), a connection that breaks.
Line(kind, text, done) == [kind |-> kind, text |-> text, done |-> done]
Lines ==
    {Line("blank", "", FALSE), Line("malformed", "", FALSE),
     Line("bad", "", FALSE), Line("broken", "", FALSE)}
    \cup {Line("response", t, d) : t \in {"x", "y"}, d \in BOOLEAN}
    \cup {Line("message", "m", d) : d \in BOOLEAN}
    \cup {Line("other", "", d) : d \in BOOLEAN}

Streamed(lines) == [exc |-> None, lines |-> lines]
Failed(exc) == [exc |-> exc, lines |-> <<>>]
PostExceptions == {"HTTPError", "ConnectionError", "Timeout", "RequestException", "Exception"}

\* Every outcome of the generation request with at most MaxEvents lines.
LlmOutcomes ==
    {Failed(e) : e \in PostExceptions}
    \cup {Streamed(ls) : ls \in UNION {[1..n -> Lines] : n \in 0..MaxEvents}}

\* The outcomes the handlers are run with: a failed request, a stream without
\* content, a stream with content.
SomeLlmOutcomes ==
    {Failed("ConnectionError"), Streamed(<<>>), Streamed(<<Line("response", "x", TRUE)>>)}

\* The set s when the input is read, one element of it when it is not.
Read(s, isRead) == IF isRead THEN s ELSE {CHOOSE x \in s : TRUE}

(***************************************************************************)
(* main.py: upload_and_process_document                                    *)
(***************************************************************************)
Response(status, body) == [status |-> status, body |-> body]

\* One entry of calls: a service function and the index it was given.
Call(fn, index) == [fn |-> fn, index |-> index]

\* The request ends without touching rag_pipeline_state or Pinecone.
Reject(r, status, body) ==
    /\ req' = r
    /\ resp' = Response(status, body)
    /\ matches' = <<>>
    /\ backend' = "none"
    /\ llm_calls' = 0
    /\ prompt' = None
    /\ pinecone_queries' = 0
    /\ upserted' = <<>>
    /\ UNCHANGED state

\* Lines 83-87 when the new document is added to the one in memory.
AppendState(cs, es, ms, model) ==
    /\ chunks' = chunks \o cs
    /\ embeddings' = embeddings \o es
    /\ metadata' = metadata \o ms
    /\ embeddings_model' = model

\* Lines 83-87 when the handler is suspended after line 84.
ReplaceChunksOnly(cs, es, ms, model) ==
    /\ chunks' = cs
    /\ UNCHANGED <<embeddings, metadata>>
    /\ embeddings_model' = model

\* Lines 83-87.
ReplaceState(cs, es, ms, model) ==
    /\ chunks' = cs
    /\ embeddings' = es
    /\ metadata' = ms
    /\ embeddings_model' = model

\* The test of lines 54 and 58 when only None is refused.
ExtractionIsNone(text) == text = None

\* Lines 54 and 58: `if not text`.
ExtractionFailed(text) == ~IsSet(text)

\* The test of line 78 left out.
EmbeddingsNeverMissing(created) == FALSE

\* Line 78: `if not embeddings_list`, of a list that is None or empty.
EmbeddingsMissing(created) == created.none \/ created.list = <<>>

\* The calls every upload makes up to line 77.
ExtractCall == Call("extract_text", None)
ChunkCall == Call("chunk_text_nltk", None)
InitCall == Call("initialize_embeddings", None)
EmbedCall == Call("create_embeddings_from_chunks", None)

\* Lines 45-117: the handler once the file is read, for the request
\* (file_name, index_name) and a chunker that returns one of docs.
UploadRequest(file_name, index_name, docs) ==
    LET ext == file_extension(file_name)
        r0 == [op |-> "upload", file_name |-> file_name, index_name |-> index_name,
               chunks |-> <<>>, text |-> None, embedding_failed |-> FALSE,
               pinecone_failure |-> None]
    IN
    IF ext \notin {"docx", "md", "markdown"}
    THEN Reject(r0, 400, "Unsupported file format") /\ calls' = <<>>
    ELSE \E text \in ExtractOutcomes :
    LET r1 == [r0 EXCEPT !.text = text] IN
    IF ExtractionFailed(text)
    THEN Reject(r1, 400, "Failed to extract text") /\ calls' = <<ExtractCall>>
    ELSE \E model_ok \in BOOLEAN : \E embed_ok \in Read(BOOLEAN, model_ok) :
         \E cs \in Read(docs, model_ok /\ embed_ok) :
    LET created == create_embeddings_from_chunks(cs, embed_ok)
        embeddings_list == created.list
        r2 == [r1 EXCEPT !.embedding_failed = ~model_ok \/ ~embed_ok]
        r == [r2 EXCEPT !.chunks = cs]
        embedded == <<ExtractCall, ChunkCall, InitCall, EmbedCall>>
    IN
    IF ~model_ok
    THEN /\ Reject(r2, 500, "Failed to initialize embeddings model.")
         /\ calls' = <<ExtractCall, ChunkCall, InitCall>>
    ELSE IF EmbeddingsMissing(created)
    THEN /\ Reject(r2, 500, "Failed to create embeddings.")
         /\ calls' = embedded
    ELSE
    LET metadata_list == create_embedding_metadata(cs, file_name) IN
    /\ ReplaceState(cs, embeddings_list, metadata_list, ModelName)
    /\ matches' = <<>>
    /\ backend' = "none"
    /\ llm_calls' = 0
    /\ prompt' = None
    /\ pinecone_queries' = 0
    /\ IF IsSet(index_name)
       THEN \E create_ok \in BOOLEAN :
            IF ~create_ok
            THEN /\ req' = [r EXCEPT !.pinecone_failure = "create"]
                 /\ resp' = Response(500, "Pinecone index creation error")
                 /\ upserted' = <<>>
                 /\ calls' = Append(embedded, Call("create_pinecone_index", index_name))
                 /\ UNCHANGED pinecone_index_name
            ELSE \E outcome \in StoreOutcomes(NumBatches(embeddings_list)) :
                 \E st \in {store_embeddings_in_pinecone(embeddings_list, cs,
                                                        metadata_list, index_name, outcome)} :
                     /\ req' = [r EXCEPT !.pinecone_failure = outcome.at]
                     /\ upserted' = st.batches
                     /\ calls' = embedded \o <<Call("create_pinecone_index", index_name),
                                               Call("store_embeddings_in_pinecone", index_name)>>
                     /\ IF st.success
                        THEN /\ pinecone_index_name' = index_name
                             /\ resp' = Response(200, "embeddings stored in Pinecone index")
                        ELSE /\ resp' = Response(500, "Failed to store embeddings in Pinecone.")
                             /\ UNCHANGED pinecone_index_name
       ELSE /\ req' = r
            /\ resp' = Response(200, "embeddings kept in-memory")
            /\ upserted' = <<>>
            /\ calls' = embedded
            /\ UNCHANGED pinecone_index_name

\* Lines 38-117, the file read at line 44 included.
upload_and_process_document ==
    /\ \E file_name \in FileNames, index_name \in IndexNames :
           UploadRequest(file_name, index_name, Docs)
    /\ UNCHANGED inflight

(***************************************************************************)
(* main.py: ask_document                                                   *)
(***************************************************************************)
\* The index names a query can carry: none, the one uploads use, another.
QueryIndexNames == IndexNames \cup {"other"}

\* The test of line 125 when the model is initialized on every query.
NeedsModelAlways(model) == TRUE

\* Line 125: `if not rag_pipeline_state['embeddings_model']`.
NeedsModel(model) == ~IsSet(model)

\* Line 132 with the request's index taken first.
ResolveRequestFirst(state_name, request_name) ==
    IF IsSet(request_name) THEN request_name ELSE state_name

\* Line 132: rag_pipeline_state.get('pinecone_index_name') or
\* query_data.pinecone_index_name.
ResolveIndex(state_name, request_name) ==
    IF IsSet(state_name) THEN state_name ELSE request_name

\* Lines 119-144, for a query drawn from the given sets.
AskRequest(queries, top_ks, index_names, llms) ==
    \E query \in queries, top_k \in top_ks, index_name \in index_names,
       model_ok \in Read(BOOLEAN, NeedsModel(embeddings_model)) :
    LET r == [op |-> "ask_document", query |-> query, top_k |-> top_k,
              index_name |-> index_name, embedding_failed |-> FALSE]
        initialized == IF NeedsModel(embeddings_model) THEN <<InitCall>> ELSE <<>>
    IN
    IF NeedsModel(embeddings_model) /\ ~model_ok
    THEN /\ Reject([r EXCEPT !.embedding_failed = TRUE], 500,
                   "Failed to initialize embeddings model.")
         /\ calls' = initialized
    ELSE
    LET pinecone_index == ResolveIndex(pinecone_index_name, index_name) IN
    /\ embeddings_model' = IF NeedsModel(embeddings_model) THEN ModelName
                           ELSE embeddings_model
    /\ UNCHANGED <<chunks, embeddings, metadata, pinecone_index_name>>
    /\ upserted' = <<>>
    /\ IF ~IsSet(pinecone_index) /\ chunks = <<>>
       THEN /\ req' = r
            /\ resp' = Response(400, "No document in memory or Pinecone index provided.")
            /\ matches' = <<>>
            /\ backend' = "none"
            /\ llm_calls' = 0
            /\ prompt' = None
            /\ pinecone_queries' = 0
            /\ calls' = initialized
       ELSE \E embed \in EmbedOutcomes(query) :
            \E pine \in Read(PineOutcomes, embed.ok /\ IsSet(pinecone_index)) :
            \E found \in {search_similar_chunks(embed, chunks, embeddings, top_k,
                                                 pinecone_index, pine)} :
            \E llm \in Read(llms, ~found.ret.raised /\ found.ret.value # <<>>) :
            \E a \in {ask_llm_with_context(query, embed, chunks, embeddings,
                                           pinecone_index, top_k, pine, llm)} :
                /\ req' = [r EXCEPT !.embedding_failed = ~embed.ok]
                /\ resp' = IF a.ret.raised
                           THEN Response(500, "Internal Server Error")
                           ELSE Response(200, a.ret.value)
                /\ matches' = a.matches
                /\ backend' = a.backend
                /\ llm_calls' = a.llm_calls
                /\ prompt' = a.prompt
                /\ pinecone_queries' = a.pinecone_queries
                /\ calls' = initialized \o
                            [i \in 1..a.pinecone_queries |->
                                Call("pinecone_query", pinecone_index)]

\* Lines 119-144.
ask_document ==
    /\ AskRequest(Queries, SomeTopKs, QueryIndexNames, SomeLlmOutcomes)
    /\ UNCHANGED inflight

(***************************************************************************)
(* The service: both handlers, from the state of rag_service.py lines 9-15 *)
(***************************************************************************)
Init ==
    /\ chunks = <<>>
    /\ embeddings = <<>>
    /\ metadata = <<>>
    /\ embeddings_model = None
    /\ pinecone_index_name = None
    /\ req = [op |-> "none"]
    /\ resp = Response(0, "")
    /\ matches = <<>>
    /\ backend = "none"
    /\ llm_calls = 0
    /\ prompt = None
    /\ pinecone_queries = 0
    /\ upserted = <<>>
    /\ calls = <<>>
    /\ inflight = EmptyBag

Next ==
    \/ upload_and_process_document
    \/ ask_document

Spec == Init /\ [][Next]_vars

(***************************************************************************)
(* The functions of pinecone_service.py and rag_service.py called on their *)
(* own: one call per behaviour, its arguments drawn by InitFn.             *)
(***************************************************************************)
\* The vectors the search is called with: the zero vector, unit vectors,
\* a multiple and the opposite of one, and a diagonal.
SearchVectors == {<<0, 0>>, <<1, 0>>, <<0, 1>>, <<2, 0>>, <<1, 1>>, <<-1, 0>>}

StoredLists == UNION {[1..n -> SearchVectors] : n \in 0..MaxChunks}

\* The chunk texts that go with a list of n stored vectors.
PositionTexts(n) == [p \in 1..n |-> IF p % 2 = 1 THEN "a" ELSE "b"]

SearchCalls ==
    {[op |-> "search_similar_chunks", query_embedding |-> q,
      chunks |-> PositionTexts(Len(es)), embeddings_list |-> es,
      top_k |-> k, index_name |-> ix, pine |-> pn] :
        q \in SearchVectors, es \in StoredLists, k \in TopKs,
        ix \in IndexNames, pn \in PineOutcomes}

AskCalls ==
    {[op |-> "ask_llm_with_context", query |-> q,
      embed |-> [ok |-> TRUE, vector |-> EmbedVec(q)],
      chunks |-> cs, embeddings_list |-> embed_documents(cs),
      top_k |-> k, index_name |-> ix, pine |-> pn, llm |-> l] :
        q \in Queries, cs \in Docs, k \in TopKs, ix \in IndexNames, pn \in PineOutcomes,
        l \in SomeLlmOutcomes}

OllamaCalls == {[op |-> "call_ollama_llm", outcome |-> o] : o \in LlmOutcomes}

\* The numbers of vectors the store is called with: none, one, and those
\* around one and two full batches.
StoreSizes ==
    {0, 1, BatchSize - 1, BatchSize, BatchSize + 1, 2 * BatchSize, 2 * BatchSize + 1}

\* A call with n chunks, the embedding of chunk p being <<p, 1>>.
StoreCallsOf(n) ==
    {[op |-> "store_embeddings_in_pinecone",
      embeddings_list |-> [p \in 1..n |-> <<p, 1>>],
      chunks |-> PositionTexts(n),
      metadata_list |-> create_embedding_metadata(PositionTexts(n), "r.docx"),
      index_name |-> "idx", outcome |-> o] :
        o \in StoreOutcomes((n + BatchSize - 1) \div BatchSize)}

StoreCalls == UNION {StoreCallsOf(n) : n \in StoreSizes}

Pending == [raised |-> FALSE, value |-> "pending"]

InitFn ==
    /\ chunks = <<>>
    /\ embeddings = <<>>
    /\ metadata = <<>>
    /\ embeddings_model = None
    /\ pinecone_index_name = None
    /\ req \in SearchCalls \cup AskCalls \cup OllamaCalls \cup StoreCalls
    /\ resp = Pending
    /\ matches = <<>>
    /\ backend = "pending"
    /\ llm_calls = 0
    /\ prompt = None
    /\ pinecone_queries = 0
    /\ upserted = <<>>
    /\ calls = <<>>
    /\ inflight = EmptyBag

CallSearchSimilarChunks ==
    /\ backend = "pending"
    /\ req.op = "search_similar_chunks"
    /\ LET s == search_similar_chunks(
                    [ok |-> TRUE, vector |-> req.query_embedding], req.chunks,
                    req.embeddings_list, req.top_k, req.index_name, req.pine)
       IN  /\ resp' = s.ret
           /\ matches' = IF s.ret.raised THEN <<>> ELSE s.ret.value
           /\ backend' = s.backend
           /\ pinecone_queries' = s.pinecone_queries
    /\ UNCHANGED <<state, req, llm_calls, prompt, upserted, calls, inflight>>

CallAskLlmWithContext ==
    /\ backend = "pending"
    /\ req.op = "ask_llm_with_context"
    /\ LET a == ask_llm_with_context(
                    req.query, req.embed, req.chunks, req.embeddings_list,
                    req.index_name, req.top_k, req.pine, req.llm)
       IN  /\ resp' = a.ret
           /\ matches' = a.matches
           /\ backend' = a.backend
           /\ llm_calls' = a.llm_calls
           /\ prompt' = a.prompt
           /\ pinecone_queries' = a.pinecone_queries
    /\ UNCHANGED <<state, req, upserted, calls, inflight>>

CallOllamaLlm ==
    /\ backend = "pending"
    /\ req.op = "call_ollama_llm"
    /\ resp' = call_ollama_llm(req.outcome)
    /\ backend' = "none"
    /\ llm_calls' = 1
    /\ UNCHANGED <<state, req, matches, prompt, pinecone_queries, upserted, calls, inflight>>

CallStoreEmbeddingsInPinecone ==
    /\ backend = "pending"
    /\ req.op = "store_embeddings_in_pinecone"
    /\ \E st \in {store_embeddings_in_pinecone(req.embeddings_list, req.chunks,
                        req.metadata_list, req.index_name, req.outcome)} :
           /\ resp' = Returned(st.success)
           /\ upserted' = st.batches
    /\ backend' = "none"
    /\ UNCHANGED <<state, req, matches, llm_calls, prompt, pinecone_queries, calls,
                   inflight>>

NextFn ==
    \/ CallSearchSimilarChunks
    \/ CallAskLlmWithContext
    \/ CallOllamaLlm
    \/ CallStoreEmbeddingsInPinecone

SpecFn == InitFn /\ [][NextFn]_vars

(***************************************************************************)
(* The service under concurrent requests.  Both handlers are coroutines on *)
(* one event loop: a handler runs until it awaits.  The upload handler     *)
(* awaits once, at line 44 (file.read()), before it touches the state;     *)
(* ask_document never awaits.                                              *)
(***************************************************************************)
MaxInflight == 2

\* The files uploaded concurrently, and the chunks the chunker makes of the
\* text of each.
ConcFiles == {"r.docx", "N.MD"}
ChunksOf(file_name) == IF file_name = "r.docx" THEN <<"a">> ELSE <<"b", "a">>

\* Lines 38-44: an upload is received and suspended at `await file.read()`.
ReceiveUpload ==
    /\ BagCardinality(inflight) < MaxInflight
    /\ \E file_name \in ConcFiles, index_name \in IndexNames :
           inflight' = inflight (+) SetToBag({[file_name |-> file_name,
                                              index_name |-> index_name]})
    /\ UNCHANGED <<state, req, resp, matches, backend, llm_calls, prompt,
                   pinecone_queries, upserted, calls>>

\* Lines 45-117: a suspended upload is resumed and runs to its response.
ResumeUpload ==
    \E u \in BagToSet(inflight) :
        /\ UploadRequest(u.file_name, u.index_name, {ChunksOf(u.file_name)})
        /\ inflight' = inflight (-) SetToBag({u})

\* Lines 119-144: a query is handled while uploads are suspended.
AskWhileUploading ==
    /\ AskRequest({"a"}, {MaxTopK}, IndexNames,
                  {Streamed(<<Line("response", "x", TRUE)>>)})
    /\ UNCHANGED inflight

NextConc ==
    \/ ReceiveUpload
    \/ ResumeUpload
    \/ AskWhileUploading

SpecConc == Init /\ [][NextConc]_vars

(***************************************************************************)
(* Properties                                                              *)
(***************************************************************************)
\* The call of SpecFn has returned (or raised).
Done == backend # "pending"

\* The last call searched the in-memory vectors of its arguments.
SearchedMemory ==
    /\ req.op = "search_similar_chunks"
    /\ Done
    /\ \/ ~IsSet(req.index_name)
       \/ ~req.pine.ok /\ req.chunks # <<>> /\ req.embeddings_list # <<>>

\* C1: in every reachable state of the service, chunks, embeddings and
\* metadata have the same length, and metadata[i].chunk_id = i and
\* metadata[i].text = chunks[i] for every index i.
C1_Alignment ==
    /\ Len(chunks) = Len(embeddings)
    /\ Len(chunks) = Len(metadata)
    /\ \A p \in 1..Len(chunks) :
          /\ metadata[p].chunk_id = p - 1
          /\ metadata[p].text = chunks[p]

\* A failed ingestion (the upsert failed) has left a document of two chunks.
C1_Witness ==
    /\ req.op = "upload"
    /\ resp.status = 500
    /\ Len(chunks) = 2
    /\ Len(metadata) = 2

\* C2: when a search names an index, the Pinecone query fails and chunks and
\* vectors are given, search_similar_chunks raises nothing and returns what
\* _in_memory_search returns for the same query vector, chunks, vectors and
\* top_k.
C2_FallbackDeterminism ==
    ( /\ req.op = "search_similar_chunks"
      /\ Done
      /\ IsSet(req.index_name)
      /\ ~req.pine.ok
      /\ req.chunks # <<>>
      /\ req.embeddings_list # <<>> )
    => /\ ~resp.raised
       /\ resp.value = in_memory_search(req.query_embedding, req.chunks,
                                        req.embeddings_list, req.top_k)

\* A failed Pinecone query answered with one match out of two stored vectors.
C2_Witness ==
    /\ req.op = "search_similar_chunks"
    /\ Done
    /\ IsSet(req.index_name)
    /\ ~req.pine.ok
    /\ Len(req.embeddings_list) = 2
    /\ req.top_k = 1
    /\ ~resp.raised
    /\ Len(resp.value) = 1

\* C3: when the Pinecone query of a query request fails and the state holds
\* no chunks or no vectors, retrieval returns no match and the request is
\* answered with the no-information message, not with an error.
C3_EmptyFallback ==
    ( /\ req.op = "ask_document"
      /\ backend = "pinecone_failed"
      /\ (chunks = <<>> \/ embeddings = <<>>) )
    => /\ matches = <<>>
       /\ resp = Response(200, NoInfoMessage)

C3_Witness ==
    /\ req.op = "ask_document"
    /\ IsSet(req.index_name)
    /\ backend = "pinecone_failed"
    /\ pinecone_queries = 1
    /\ chunks = <<>>
    /\ resp = Response(200, NoInfoMessage)

\* C4: whenever the retrieval of ask_llm_with_context yields no match, it
\* returns the no-information message and call_ollama_llm is not called; so
\* it is for a call with no index and no chunks.
C4_NoMatchSentinel ==
    /\ ( /\ req.op = "ask_llm_with_context"
         /\ Done
         /\ ~resp.raised
         /\ matches = <<>> )
       => /\ resp = Returned(NoInfoMessage)
          /\ llm_calls = 0
    /\ ( /\ req.op = "ask_llm_with_context"
         /\ Done
         /\ ~IsSet(req.index_name)
         /\ req.chunks = <<>> )
       => /\ resp = Returned(NoInfoMessage)
          /\ llm_calls = 0

C4_Witness ==
    /\ req.op = "ask_llm_with_context"
    /\ Done
    /\ ~IsSet(req.index_name)
    /\ req.chunks = <<>>
    /\ req.top_k = MaxTopK
    /\ resp = Returned(NoInfoMessage)
    /\ llm_calls = 0

\* The generation request of the call failed: the request itself, or a line
\* of the stream.
GenerationFailed(outcome) ==
    \/ outcome.exc # None
    \/ \E i \in 1..Len(outcome.lines) :
          outcome.lines[i].kind \in {"malformed", "bad", "broken"}

\* C5: for every failure of the generation request call_ollama_llm returns a
\* non-empty string and raises nothing, and a call of ask_llm_with_context
\* whose retrieval returned matches returns a string.
C5_GenerationNeverRaises ==
    /\ ( /\ req.op = "call_ollama_llm"
         /\ Done
         /\ GenerationFailed(req.outcome) )
       => /\ ~resp.raised
          /\ resp.value \in STRING
          /\ resp.value # ""
    /\ ( /\ req.op = "ask_llm_with_context"
         /\ Done
         /\ matches # <<>> )
       => /\ ~resp.raised
          /\ resp.value \in STRING
          /\ llm_calls = 1

\* A stream whose second line cannot be decoded, after a first fragment.
C5_Witness ==
    /\ req.op = "call_ollama_llm"
    /\ Done
    /\ req.outcome.exc = None
    /\ Len(req.outcome.lines) = 2
    /\ req.outcome.lines[1].kind = "response"
    /\ req.outcome.lines[2].kind = "bad"
    /\ resp = Returned("An unexpected error occurred during Ollama LLM call")

\* C6, as claimed: every query request for which the embedding capability is
\* available completes with an answer string, never with a failure response.
C6_Claimed ==
    (req.op = "ask_document" /\ ~req.embedding_failed)
    => resp.status = 200

\* C6, amended: a query request for which the embedding capability is
\* available completes with an answer string (a generated answer, the
\* no-information message or the description of a generation error) when an
\* index is named by the state or by the request or the state holds chunks;
\* when neither is so, it is rejected with status 400.
C6_AnswerUnlessNothingToSearch ==
    (req.op = "ask_document" /\ ~req.embedding_failed)
    => IF IsSet(pinecone_index_name) \/ IsSet(req.index_name) \/ chunks # <<>>
       THEN /\ resp.status = 200
            /\ resp.body \in STRING
            /\ resp.body = NoInfoMessage \/ llm_calls = 1
       ELSE resp = Response(400, "No document in memory or Pinecone index provided.")

\* A query answered from memory after its Pinecone query failed, the
\* generation request failing too.
C6_Witness ==
    /\ req.op = "ask_document"
    /\ ~req.embedding_failed
    /\ backend = "pinecone_failed"
    /\ matches # <<>>
    /\ resp = Response(200, "Connection error calling Ollama LLM")

\* C7: an in-memory search over n stored vectors with top_k >= 1 returns
\* exactly min(top_k, n) matches, with scores that do not increase.
C7_TopK ==
    (SearchedMemory /\ req.top_k >= 1)
    => /\ ~resp.raised
       /\ Len(resp.value) = Min(req.top_k, Len(req.embeddings_list))
       /\ \A i, j \in 1..Len(resp.value) :
             i < j => ~ScoreLess(resp.value[i].score, resp.value[j].score)

\* top_k above the number of stored vectors.
C7_Witness ==
    /\ SearchedMemory
    /\ req.top_k = 2
    /\ Len(req.embeddings_list) = 1
    /\ ~resp.raised
    /\ Len(resp.value) = 1

\* C8: in an in-memory search, two matches of equal score come in ascending
\* order of their chunk index.
C8_TiesByIndex ==
    SearchedMemory
    => /\ ~resp.raised
       /\ \A i, j \in 1..Len(resp.value) :
             (i < j /\ resp.value[i].score = resp.value[j].score)
             => resp.value[i].id < resp.value[j].id

\* Two stored vectors of equal, non-zero score, both returned.
C8_Witness ==
    /\ SearchedMemory
    /\ ~resp.raised
    /\ Len(resp.value) = 2
    /\ resp.value[1].score = resp.value[2].score
    /\ resp.value[1].score # Zero
    /\ req.embeddings_list[1] # req.embeddings_list[2]
    /\ resp.value[1].id = 0

\* The stored vector a match was computed from.
StoredOf(m) == req.embeddings_list[m.id + 1]

\* C9: the in-memory score of a match is dot/(norm*norm): 1.0 when the query
\* and the stored vector are the same non-zero vector, 0.0 when they are
\* orthogonal and 0.0 when either has norm zero; and a query equal to one
\* stored vector, all others orthogonal to it, gets that chunk first with
\* score 1.0.
C9_Cosine ==
    SearchedMemory
    => /\ ~resp.raised
       /\ \A i \in 1..Len(resp.value) :
             LET m == resp.value[i]
                 q == req.query_embedding
                 v == StoredOf(m)
                 dot == Dot(q, v)
             IN  /\ m.text = req.chunks[m.id + 1]
                 /\ (NormSq(q) = 0 \/ NormSq(v) = 0) => m.score = Zero
                 /\ (q = v /\ NormSq(q) # 0) => m.score = One
                 /\ dot = 0 => m.score = Zero
                 /\ (NormSq(q) # 0 /\ NormSq(v) # 0)
                    => /\ m.score.den > 0
                       /\ m.score.num * NormSq(q) * NormSq(v)
                          = (IF dot < 0 THEN -1 ELSE 1) * dot * dot * m.score.den
       /\ \A p \in 1..Len(req.embeddings_list) :
             ( /\ req.top_k >= 1
               /\ req.embeddings_list[p] = req.query_embedding
               /\ NormSq(req.query_embedding) # 0
               /\ \A o \in 1..Len(req.embeddings_list) :
                     o # p => Dot(req.query_embedding, req.embeddings_list[o]) = 0 )
             => /\ resp.value[1].id = p - 1
                /\ resp.value[1].score = One

\* The query vector is the second stored vector, the first is orthogonal.
C9_Witness ==
    /\ SearchedMemory
    /\ req.top_k = 1
    /\ req.query_embedding = <<1, 0>>
    /\ req.embeddings_list = <<(<<0, 1>>), (<<1, 0>>)>>
    /\ ~resp.raised
    /\ resp.value = <<[id |-> 1, score |-> One, text |-> "b"]>>

\* C10: after a successful ingestion the chunks, embeddings and metadata of
\* the state are those of that ingestion and nothing else.
C10_ReplacedWholesale ==
    (req.op = "upload" /\ resp.status = 200)
    => /\ chunks = req.chunks
       /\ embeddings = embed_documents(req.chunks)
       /\ metadata = create_embedding_metadata(req.chunks, req.file_name)

\* A successful in-memory ingestion after an earlier ingestion that had
\* stored its vectors in an index.
C10_Witness ==
    /\ req.op = "upload"
    /\ resp.status = 200
    /\ ~IsSet(req.index_name)
    /\ IsSet(pinecone_index_name)
    /\ Len(chunks) = 1

\* The request last handled is an ingestion that succeeded and named no index.
IngestedInMemory ==
    /\ req.op = "upload"
    /\ resp.status = 200
    /\ ~IsSet(req.index_name)

\* C11: a query naming no index that follows a successful ingestion naming no
\* index is retrieved from the in-memory vectors of that ingestion, without
\* contacting Pinecone, whatever requests came before.
C11_Claimed ==
    [][(/\ IngestedInMemory
        /\ req'.op = "ask_document"
        /\ ~IsSet(req'.index_name)
        /\ ~req'.embedding_failed)
       => /\ backend' = "memory"
          /\ pinecone_queries' = 0
          /\ matches' = in_memory_search(EmbedVec(req'.query), req.chunks,
                                         embed_documents(req.chunks), req'.top_k)]_vars

\* The file of upload request r has no supported extension (lines 60-64).
Unsupported(r) == file_extension(r.file_name) \notin {"docx", "md", "markdown"}

\* The names of the services the request last handled called.
Called == {calls[i].fn : i \in 1..Len(calls)}

\* C12: an ingestion whose file format is unsupported or whose extraction
\* returns nothing is rejected with status 400 before the chunker, the
\* embedding model or Pinecone is called, and leaves rag_pipeline_state as it
\* was.
C12_EmptyExtractionRejected ==
    [][(req'.op = "upload" /\ (Unsupported(req') \/ ~IsSet(req'.text)))
       => /\ resp'.status = 400
          /\ UNCHANGED state
          /\ Called' \subseteq {"extract_text"}
          /\ upserted' = <<>>]_vars

\* An upload whose extraction returned the empty text was rejected while the
\* state held a document.
C12_Witness ==
    /\ req.op = "upload"
    /\ ~Unsupported(req)
    /\ req.text = ""
    /\ resp.status = 400
    /\ calls = <<ExtractCall>>
    /\ chunks # <<>>

\* C13: an ingestion whose embedding model cannot be initialized, or whose
\* batch embedding call fails, ends with status 500, upserts nothing to
\* Pinecone and leaves chunks, embeddings, metadata, the model handle and the
\* index name as they were.
C13_EmbeddingFailureLeavesState ==
    [][(req'.op = "upload" /\ req'.embedding_failed)
       => /\ resp'.status = 500
          /\ UNCHANGED state
          /\ upserted' = <<>>
          /\ Called' \cap {"create_pinecone_index", "store_embeddings_in_pinecone"} = {}]_vars

\* The batch embedding call of an upload naming an index failed while the
\* state held a document.
C13_Witness ==
    /\ req.op = "upload"
    /\ req.embedding_failed
    /\ IsSet(req.index_name)
    /\ resp = Response(500, "Failed to create embeddings.")
    /\ chunks # <<>>
    /\ upserted = <<>>

RECURSIVE CountFrom(_, _)
CountFrom(batches, b) ==
    IF b > Len(batches) THEN 0 ELSE Len(batches[b]) + CountFrom(batches, b + 1)

\* The number of vectors in a list of batches.
VectorCount(batches) == CountFrom(batches, 1)

\* C14: an ingestion that names an index answers 200 only if the index was
\* created and every batch was upserted, and then the state names that index;
\* on any failure of the Pinecone step it answers 500 and does not assign
\* pinecone_index_name.
C14_IndexedSuccessOnlyIfStored ==
    [][(req'.op = "upload" /\ IsSet(req'.index_name) /\ IsSet(req'.pinecone_failure))
       => IF req'.pinecone_failure = "none"
          THEN /\ resp'.status = 200
               /\ pinecone_index_name' = req'.index_name
               /\ VectorCount(upserted') = Len(req'.chunks)
          ELSE /\ resp'.status = 500
               /\ UNCHANGED pinecone_index_name]_vars

\* The upsert of a batch failed in an ingestion naming an index, the state
\* naming none.
C14_Witness ==
    /\ req.op = "upload"
    /\ IsSet(req.index_name)
    /\ req.pinecone_failure = "upsert"
    /\ resp.status = 500
    /\ pinecone_index_name = None
    /\ chunks = req.chunks

\* A line that is a stream event: a JSON object.
IsEvent(line) == line.kind \in {"response", "message", "other"}

\* The position of the first event marked done, the last line when there is
\* none.
FirstDone(lines) ==
    IF \E i \in 1..Len(lines) : IsEvent(lines[i]) /\ lines[i].done
    THEN CHOOSE i \in 1..Len(lines) :
             /\ IsEvent(lines[i]) /\ lines[i].done
             /\ \A j \in 1..(i - 1) : ~(IsEvent(lines[j]) /\ lines[j].done)
    ELSE Len(lines)

\* The text fragments of the first n lines, in arrival order.
RECURSIVE Fragments(_, _)
Fragments(lines, n) ==
    IF n = 0 THEN ""
    ELSE Fragments(lines, n - 1)
         \o (IF lines[n].kind \in {"response", "message"} THEN lines[n].text ELSE "")

\* The last call was call_ollama_llm on a stream that was read, up to its
\* first done event, without an error.
StreamRead ==
    /\ Done
    /\ req.op = "call_ollama_llm"
    /\ req.outcome.exc = None
    /\ \A i \in 1..FirstDone(req.outcome.lines) :
           req.outcome.lines[i].kind \notin {"bad", "broken"}

\* C15 as claimed: call_ollama_llm returns the concatenation, in arrival
\* order, of the fragments of the events up to and including the first one
\* marked done.
C15_Claimed ==
    StreamRead
    => resp = Returned(Fragments(req.outcome.lines, FirstDone(req.outcome.lines)))

\* C15: call_ollama_llm returns the concatenation, in arrival order, of the
\* fragments of the events up to and including the first one marked done when
\* that concatenation is not empty, and the no-content message when it is.
C15_StreamConcatenated ==
    StreamRead
    => LET text == Fragments(req.outcome.lines, FirstDone(req.outcome.lines)) IN
       resp = Returned(IF text # "" THEN text ELSE NoContentMessage)

\* A fragment arrived after the event marked done and was left out.
C15_Witness ==
    /\ StreamRead
    /\ req.outcome.lines = <<Line("response", "x", TRUE), Line("response", "y", FALSE)>>
    /\ resp = Returned("x")

\* C16: a query initializes the embedding model exactly when the state holds
\* no handle, a handle that is present stays the one in the state, and no
\* query changes chunks, embeddings, metadata or pinecone_index_name.
C16_QueryChangesOnlyModel ==
    [][req'.op = "ask_document"
       => /\ UNCHANGED <<chunks, embeddings, metadata, pinecone_index_name>>
          /\ IF IsSet(embeddings_model)
             THEN /\ embeddings_model' = embeddings_model
                  /\ "initialize_embeddings" \notin Called'
             ELSE /\ "initialize_embeddings" \in Called'
                  /\ embeddings_model' \in {None, ModelName}
                  /\ IsSet(embeddings_model')
                     <=> resp' # Response(500, "Failed to initialize embeddings model.")]_vars

\* A query was answered with the handle an ingestion had left in the state.
C16_Witness ==
    /\ req.op = "ask_document"
    /\ resp.status = 200
    /\ embeddings_model = ModelName
    /\ chunks # <<>>
    /\ "initialize_embeddings" \notin Called

\* The Pinecone queries of the request last handled.
PineconeQueries == {calls[i] : i \in {j \in 1..Len(calls) : calls[j].fn = "pinecone_query"}}

\* C19: a query searches the index named by the state when it names one,
\* otherwise the index named by the request, otherwise the in-memory
\* vectors; when neither names an index Pinecone is not contacted.
C19_Destination ==
    req.op = "ask_document"
    => LET destination == IF IsSet(pinecone_index_name) THEN pinecone_index_name
                          ELSE req.index_name
       IN  /\ ~IsSet(destination)
              => /\ pinecone_queries = 0
                 /\ PineconeQueries = {}
                 /\ resp.status = 200 => backend = "memory"
           /\ (IsSet(destination) /\ ~req.embedding_failed)
              => /\ pinecone_queries = 1
                 /\ PineconeQueries = {Call("pinecone_query", destination)}
                 /\ backend \in {"pinecone", "pinecone_failed"}

\* The state named one index, the request another, and the state's index was
\* queried.
C19_Witness ==
    /\ req.op = "ask_document"
    /\ req.index_name = "other"
    /\ pinecone_index_name = "idx"
    /\ PineconeQueries = {Call("pinecone_query", "idx")}
    /\ backend = "pinecone"

\* The texts of the first n of the matches ms, each followed by a blank line
\* but the last.
RECURSIVE TextsJoined(_, _)
TextsJoined(ms, n) ==
    IF n = 0 THEN ""
    ELSE IF n = 1 THEN ms[1].text
    ELSE TextsJoined(ms, n - 1) \o "\n\n" \o ms[n].text

\* The text t contains the text part.
Contains(t, part) ==
    \E i \in 1..(Len(t) - Len(part) + 1) : SubSeq(t, i, i + Len(part) - 1) = part

\* C18: when retrieval returns at least one match, the prompt holds, between
\* the context markers, the texts of the matches in ranked order joined by a
\* blank line, it holds the query, and call_ollama_llm is called exactly once.
C18_ContextAndPrompt ==
    (Done /\ req.op = "ask_llm_with_context" /\ matches # <<>>)
    => /\ llm_calls = 1
       /\ Contains(prompt, "Context:\n---\n" \o TextsJoined(matches, Len(matches)) \o "\n---\n")
       /\ Contains(prompt, "Question: " \o req.query \o "\n")

\* Two matches with different texts were retrieved from memory and the
\* generation was called once.
C18_Witness ==
    /\ Done
    /\ req.op = "ask_llm_with_context"
    /\ backend = "memory"
    /\ Len(matches) = 2
    /\ matches[1].text = "b"
    /\ matches[2].text = "a"
    /\ llm_calls = 1
    /\ Contains(prompt, "b\n\na")

\* The vectors of a list of batches, in the order they were sent.
RECURSIVE FlattenFrom(_, _)
FlattenFrom(batches, b) ==
    IF b > Len(batches) THEN <<>> ELSE batches[b] \o FlattenFrom(batches, b + 1)

\* C20: store_embeddings_in_pinecone upserts its n vectors in ceil(n/100)
\* batches of at most 100, every vector once and in chunk order, vector i
\* carrying the embedding, the text and the metadata of chunk i; the batches
\* before a failed upsert are the only ones sent, and it returns True only
\* if every upsert succeeded.
C20_Batches ==
    (Done /\ req.op = "store_embeddings_in_pinecone")
    => \E sent \in {FlattenFrom(upserted, 1)} :
       LET n == Len(req.chunks) IN
       /\ \A b \in 1..Len(upserted) : Len(upserted[b]) \in 1..BatchSize
       /\ Len(sent) <= n
       /\ \A i \in 1..Len(sent) :
              /\ sent[i].id.i = i - 1
              /\ sent[i].values = req.embeddings_list[i]
              /\ sent[i].metadata = [req.metadata_list[i] EXCEPT !.text = req.chunks[i]]
       /\ req.outcome.at \in {"none", "stats"}
          => /\ Len(sent) = n
             /\ Len(upserted) * BatchSize >= n
             /\ (Len(upserted) - 1) * BatchSize < n
       /\ req.outcome.at = "upsert"
          => /\ Len(upserted) = req.outcome.batch - 1
             /\ Len(sent) = (req.outcome.batch - 1) * BatchSize
       /\ req.outcome.at = "connect" => upserted = <<>>
       /\ resp.value <=> req.outcome.at = "none"

\* Two full batches and a batch of one vector were upserted.
C20_Witness ==
    /\ Done
    /\ req.op = "store_embeddings_in_pinecone"
    /\ Len(req.chunks) = 2 * BatchSize + 1
    /\ resp = Returned(TRUE)
    /\ Len(upserted) = 3
    /\ Len(upserted[1]) = BatchSize
    /\ Len(upserted[3]) = 1
    /\ upserted[3][1].id.i = 2 * BatchSize

\* C17: under every interleaving of uploads and queries the chunks,
\* embeddings and metadata of the state are those of one ingestion, those of
\* the upload that finished last; a query searching the in-memory vectors
\* gets the matches of the chunks and embeddings of that one ingestion.
C17_OneIngestion ==
    /\ embeddings = embed_documents(chunks)
    /\ \/ chunks = <<>> /\ metadata = <<>>
       \/ \E file_name \in ConcFiles :
              /\ chunks = ChunksOf(file_name)
              /\ metadata = create_embedding_metadata(chunks, file_name)
    /\ (req.op = "upload" /\ resp.status = 200)
       => /\ chunks = ChunksOf(req.file_name)
          /\ embeddings = embed_documents(ChunksOf(req.file_name))
          /\ metadata = create_embedding_metadata(ChunksOf(req.file_name), req.file_name)
    /\ (req.op = "ask_document" /\ backend \in {"memory", "pinecone_failed"}
        /\ resp.status = 200)
       => \E doc \in {<<>>} \cup {ChunksOf(file_name) : file_name \in ConcFiles} :
              /\ chunks = doc
              /\ matches = in_memory_search(EmbedVec(req.query), doc,
                                            embed_documents(doc), req.top_k)

\* An upload finished and replaced the document of an earlier one while an
\* upload of the other file, received before, is still suspended.
C17_Witness ==
    /\ req.op = "upload"
    /\ resp.status = 200
    /\ req.file_name = "N.MD"
    /\ chunks = ChunksOf("N.MD")
    /\ BagIn([file_name |-> "r.docx", index_name |-> None], inflight)
    /\ IsSet(pinecone_index_name)

\* C21: an ingestion naming an index that fails at index creation or at an
\* upsert leaves the chunks, embeddings and metadata of the state as they
\* were before the request.
C21_Claimed ==
    [][(/\ req'.op = "upload"
        /\ IsSet(req'.index_name)
        /\ req'.pinecone_failure \in {"create", "upsert"}
        /\ resp'.status = 500)
       => UNCHANGED <<chunks, embeddings, metadata>>]_vars

====
